---- MODULE Spec2Model ----
(***************************************************************************)
(* A model of package ics (src/decode.go): the iCalendar decoder.          *)
(*                                                                         *)
(* Strings are sequences of one-character strings, so that the byte-level  *)
(* work of decodeLine (ReadBytes, Peek, SplitN, Trim) and of UnescapeText  *)
(* (strings.Replace) is computed as the code computes it.                  *)
(* A time.Time of calendar-date precision is the number YYYYMMDD; the zero *)
(* time.Time (January 1, year 1) is the number 10101.                      *)
(***************************************************************************)
EXTENDS Integers, Sequences, FiniteSets, TLC

(***************************************************************************)
(* Bounds of the model.                                                    *)
(***************************************************************************)
\* Event blocks in a calendar of the first family of inputs.
MaxEvents == 3
\* Property lines inside the single event of the second family of inputs.
MaxProps == 2
\* Raw lines of an input of the third family (arbitrary short streams).
MaxLines == 3
\* Bytes of a text of the fourth family (one escaped SUMMARY value).
MaxText == 3

(***************************************************************************)
(* Bytes.                                                                  *)
(***************************************************************************)
LF == "\n"
CR == "\r"
SP == " "
BS == "\\"

Digits == <<"0", "1", "2", "3", "4", "5", "6", "7", "8", "9">>

IsDigit(ch) == \E i \in 1..10 : Digits[i] = ch

DigitVal(ch) == (CHOOSE i \in 1..10 : Digits[i] = ch) - 1

(***************************************************************************)
(* Package strings.                                                        *)
(***************************************************************************)
\* s[i:] with i counted from 0, as in Go.
From(s, i) == SubSeq(s, i + 1, Len(s))

\* strings.HasPrefix(s, p), and the code's  len(key) >= n && key[0:n] == p.
HasPrefix(s, p) == Len(s) >= Len(p) /\ \A k \in 1..Len(p) : s[k] = p[k]

\* Whether sep stands in s at offset i (counted from 0).
MatchAt(s, sep, i) ==
    /\ i + Len(sep) <= Len(s)
    /\ \A k \in 1..Len(sep) : s[i + k] = sep[k]

\* The first offset >= i at which sep stands in s; -1 when there is none.
RECURSIVE IndexFrom(_, _, _)
IndexFrom(s, sep, i) ==
    IF i + Len(sep) > Len(s) THEN -1
    ELSE IF MatchAt(s, sep, i) THEN i
    ELSE IndexFrom(s, sep, i + 1)

\* strings.Index(s, sep), counted from 0; -1 when sep does not occur.
Index(s, sep) == IndexFrom(s, sep, 0)

\* strings.Replace(s, old, new, -1) for a non-empty old: the non-overlapping
\* occurrences of old, found left to right, are replaced by new.
RECURSIVE Replace(_, _, _)
Replace(s, old, new) ==
    LET i == Index(s, old)
    IN  IF i < 0 THEN s
        ELSE SubSeq(s, 1, i) \o new \o Replace(From(s, i + Len(old)), old, new)

\* strings.TrimLeft / TrimRight / Trim(s, cutset).
RECURSIVE TrimLeft(_, _)
TrimLeft(s, cutset) ==
    IF s # <<>> /\ s[1] \in cutset THEN TrimLeft(Tail(s), cutset) ELSE s

RECURSIVE TrimRight(_, _)
TrimRight(s, cutset) ==
    IF s # <<>> /\ s[Len(s)] \in cutset
    THEN TrimRight(SubSeq(s, 1, Len(s) - 1), cutset)
    ELSE s

\* Mutant of Trim: nothing is trimmed.
TrimNone(s, cutset) == s

Trim(s, cutset) == TrimRight(TrimLeft(s, cutset), cutset)

\* strings.SplitN(s, ":", 2): the parts around the first colon, or s alone.
SplitN2(s) ==
    LET i == Index(s, <<":">>)
    IN  IF i < 0 THEN <<s>> ELSE <<SubSeq(s, 1, i), From(s, i + 1)>>

(***************************************************************************)
(* Words of the format.                                                    *)
(***************************************************************************)
sBEGIN == <<"B", "E", "G", "I", "N">>
sEND == <<"E", "N", "D">>
sVCALENDAR == <<"V", "C", "A", "L", "E", "N", "D", "A", "R">>
sVEVENT == <<"V", "E", "V", "E", "N", "T">>
sUID == <<"U", "I", "D">>
sDTSTART == <<"D", "T", "S", "T", "A", "R", "T">>
sDTEND == <<"D", "T", "E", "N", "D">>
sVALUEDATE == <<";", "V", "A", "L", "U", "E", "=", "D", "A", "T", "E">>
sSUMMARY == <<"S", "U", "M", "M", "A", "R", "Y">>
sLOCATION == <<"L", "O", "C", "A", "T", "I", "O", "N">>
sDESCRIPTION == <<"D", "E", "S", "C", "R", "I", "P", "T", "I", "O", "N">>
sNBSP == <<"&", "n", "b", "s", "p">>

(***************************************************************************)
(* Errors.  EOF is io.EOF; ErrIO is any other error of the underlying      *)
(* reader; ErrParse is the *time.ParseError of time.Parse.                 *)
(***************************************************************************)
Nil == "nil"
EOF == "EOF"
ErrIO == "ErrIO"
ErrBadLine == "bad line, couldn't find key:value"
ErrNoVCalendar == "didn't find BEGIN:VCALENDAR"
ErrParse == "ErrParse"

(***************************************************************************)
(* UnescapeText.                                                           *)
(***************************************************************************)
\* An UnescapeText that leaves newlines as they are.
UnescapeTextKeepNewline(s) ==
    LET s1 == Replace(s, <<BS, ";">>, <<";">>)
        s2 == Replace(s1, <<BS, ",">>, <<",">>)
        s3 == Replace(s2, <<BS, "n">>, <<LF>>)
        s4 == Replace(s3, <<BS, BS>>, <<BS>>)
    IN  Replace(s4, sNBSP, <<SP>>)

UnescapeText(s) ==
    LET s1 == Replace(s, <<BS, ";">>, <<";">>)
        s2 == Replace(s1, <<BS, ",">>, <<",">>)
        s3 == Replace(s2, <<BS, "n">>, <<LF>>)
        s4 == Replace(s3, <<BS, BS>>, <<BS>>)
        s5 == Replace(s4, <<LF>>, <<SP>>)
    IN  Replace(s5, sNBSP, <<SP>>)

(***************************************************************************)
(* time.Time at calendar-date precision, and decodeDate.                   *)
(***************************************************************************)
\* time.Time{}: January 1, year 1.
ZeroTime == 10101

IsZero(t) == t = ZeroTime

Before(t, u) == t < u

Num2(s, i) == 10 * DigitVal(s[i]) + DigitVal(s[i + 1])

IsLeap(y) == y % 4 = 0 /\ (y % 100 # 0 \/ y % 400 = 0)

DaysIn(m, y) ==
    IF m = 2 THEN (IF IsLeap(y) THEN 29 ELSE 28)
    ELSE IF m \in {4, 6, 9, 11} THEN 30 ELSE 31

\* Mutant of TimeParse: the month and the day are not range-checked, and a
\* byte that is no digit counts as 0.
TimeParseLenient(s) ==
    LET dv(i) == IF IsDigit(s[i]) THEN DigitVal(s[i]) ELSE 0
        y == 1000 * dv(1) + 100 * dv(2) + 10 * dv(3) + dv(4)
    IN  [t |-> 10000 * y + 100 * (10 * dv(5) + dv(6)) + 10 * dv(7) + dv(8),
         err |-> Nil]

\* time.Parse("20060102", s) for a string s of 8 bytes.
TimeParse(s) ==
    IF \E i \in 1..8 : ~IsDigit(s[i]) THEN [t |-> ZeroTime, err |-> ErrParse]
    ELSE LET y == 100 * Num2(s, 1) + Num2(s, 3)
             m == Num2(s, 5)
             d == Num2(s, 7)
         IN  IF m < 1 \/ m > 12 \/ d < 1 \/ d > DaysIn(m, y)
             THEN [t |-> ZeroTime, err |-> ErrParse]
             ELSE [t |-> 10000 * y + 100 * m + d, err |-> Nil]

\* Mutant of decodeDate: a value of fewer than 8 bytes is handed to
\* time.Parse, which refuses it.
decodeDateStrict(value) ==
    IF Len(value) < 8 THEN [t |-> ZeroTime, err |-> ErrParse]
    ELSE TimeParse(SubSeq(value, 1, 8))

decodeDate(value) ==
    IF Len(value) < 8 THEN [t |-> ZeroTime, err |-> Nil]
    ELSE TimeParse(SubSeq(value, 1, 8))

(***************************************************************************)
(* Events, eventList and the sort of decode.                               *)
(***************************************************************************)
\* new(Event)
NewEvent ==
    [UID |-> <<>>, Start |-> ZeroTime, End |-> ZeroTime,
     Summary |-> <<>>, Location |-> <<>>, Description |-> <<>>]

\* Mutant of Less: the comparison of two set Starts is inverted.
LessInverted(l, i, j) ==
    IF IsZero(l[i].Start) THEN TRUE
    ELSE IF IsZero(l[j].Start) THEN FALSE
    ELSE Before(l[j].Start, l[i].Start)

\* eventList.Less, on positions counted from 1.
Less(l, i, j) ==
    IF IsZero(l[i].Start) THEN TRUE
    ELSE IF IsZero(l[j].Start) THEN FALSE
    ELSE Before(l[i].Start, l[j].Start)

Swap(l, i, j) == [l EXCEPT ![i] = l[j], ![j] = l[i]]

\* The inner loop of the insertion sort that sort.Sort runs on a list of
\* fewer than 12 elements:  for j := i; j > a && Less(j, j-1); j-- { Swap }.
RECURSIVE SiftDown(_, _)
SiftDown(l, j) ==
    IF j > 1 /\ Less(l, j, j - 1) THEN SiftDown(Swap(l, j, j - 1), j - 1) ELSE l

RECURSIVE InsertionSort(_, _)
InsertionSort(l, i) ==
    IF i > Len(l) THEN l ELSE InsertionSort(SiftDown(l, i), i + 1)

\* sort.Sort(eventList(c.Event))
Sort(l) == InsertionSort(l, 2)

(***************************************************************************)
(* The bufio.Reader over the input: rd is the number of bytes consumed,    *)
(* atEnd the error the underlying reader gives at the end of its bytes.    *)
(***************************************************************************)
\* r.ReadBytes('\n')
ReadBytes(in, rd, atEnd) ==
    LET i == IndexFrom(in, <<LF>>, rd)
    IN  IF i >= 0
        THEN [b |-> SubSeq(in, rd + 1, i + 1), err |-> Nil, rd |-> i + 1]
        ELSE [b |-> From(in, rd), err |-> atEnd, rd |-> Len(in)]

\* r.Peek(1)
Peek1(in, rd, atEnd) ==
    IF rd < Len(in) THEN [b |-> <<in[rd + 1]>>, err |-> Nil]
    ELSE [b |-> <<>>, err |-> atEnd]

(***************************************************************************)
(* decodeLine.                                                             *)
(***************************************************************************)
CutsetTrim == {SP, CR, LF}
CutsetPreserve == {SP}

\* Mutant of SplitLine: a line without a colon is a key with an empty value.
SplitLineLenient(buf, rd, removeCRLF) ==
    LET p == SplitN2(buf)
        cutset == IF removeCRLF THEN CutsetTrim ELSE CutsetPreserve
    IN  [key |-> Trim(p[1], cutset),
         value |-> IF Len(p) = 2 THEN Trim(p[2], cutset) ELSE <<>>,
         err |-> Nil, rd |-> rd]

\* A decodeLine that returns an empty key and value, and no error, when
\* nothing was accumulated.
SplitLineEmptyOk(buf, rd, removeCRLF) ==
    LET p == SplitN2(buf)
        cutset == IF removeCRLF THEN CutsetTrim ELSE CutsetPreserve
    IN  IF buf = <<>>
        THEN [key |-> <<>>, value |-> <<>>, err |-> Nil, rd |-> rd]
        ELSE IF Len(p) # 2
        THEN [key |-> <<>>, value |-> <<>>, err |-> ErrBadLine, rd |-> rd]
        ELSE [key |-> Trim(p[1], cutset), value |-> Trim(p[2], cutset),
              err |-> Nil, rd |-> rd]

\* The statements after the loop: split at the first colon, then trim.
SplitLine(buf, rd, removeCRLF) ==
    LET p == SplitN2(buf)
        cutset == IF removeCRLF THEN CutsetTrim ELSE CutsetPreserve
    IN  IF Len(p) # 2
        THEN [key |-> <<>>, value |-> <<>>, err |-> ErrBadLine, rd |-> rd]
        ELSE [key |-> Trim(p[1], cutset), value |-> Trim(p[2], cutset),
              err |-> Nil, rd |-> rd]

\* The loop  for !done { ... }  from the state (buf, rd, done).
RECURSIVE LineLoop(_, _, _, _, _, _)
LineLoop(in, atEnd, removeCRLF, buf, rd, done) ==
    IF done THEN SplitLine(buf, rd, removeCRLF)
    ELSE
    LET got == ReadBytes(in, rd, atEnd)
        b == IF got.b # <<>> /\ got.b[1] = SP THEN Tail(got.b) ELSE got.b
        nxt == Peek1(in, got.rd, atEnd)
    IN  IF got.err # Nil /\ got.err # EOF
        THEN [key |-> <<>>, value |-> <<>>, err |-> got.err, rd |-> got.rd]
        ELSE IF Len(got.b) = 0
        THEN LineLoop(in, atEnd, removeCRLF, buf, got.rd, got.err = EOF)
        ELSE IF nxt.err # Nil \/ nxt.b[1] # SP
        THEN SplitLine(buf \o b, got.rd, removeCRLF)
        ELSE LineLoop(in, atEnd, removeCRLF, buf \o b, got.rd, got.err = EOF)

decodeLine(in, rd, atEnd, removeCRLF) ==
    LineLoop(in, atEnd, removeCRLF, <<>>, rd, FALSE)

(***************************************************************************)
(* decodeEvent: one line of the event, after decodeLine.                   *)
(***************************************************************************)
\* Mutant of NormalizeKey: the key is left as it is.
NormalizeKeyExact(key) == key

\* "Fix dates": a key that begins with DTSTART or DTEND becomes the bare key.
NormalizeKey(key) ==
    LET k1 == IF HasPrefix(key, sDTSTART) THEN sDTSTART ELSE key
    IN  IF HasPrefix(k1, sDTEND) THEN sDTEND ELSE k1

\* The switch on the key.  ev is the event, err the error of decodeLine;
\* done says that the switch returned the event (END:VEVENT).
EventSwitch(ev, key, value, err) ==
    IF key = sEND
    THEN [e |-> ev, err |-> err, done |-> (value = sVEVENT)]
    ELSE IF key = sUID
    THEN [e |-> [ev EXCEPT !.UID = value], err |-> err, done |-> FALSE]
    ELSE IF key = sDTSTART \/ key = sDTSTART \o sVALUEDATE
    THEN [e |-> [ev EXCEPT !.Start = decodeDate(value).t],
          err |-> decodeDate(value).err, done |-> FALSE]
    ELSE IF key = sDTEND \/ key = sDTEND \o sVALUEDATE
    THEN [e |-> [ev EXCEPT !.End = decodeDate(value).t],
          err |-> decodeDate(value).err, done |-> FALSE]
    ELSE IF key = sSUMMARY
    THEN [e |-> [ev EXCEPT !.Summary = value], err |-> err, done |-> FALSE]
    ELSE IF key = sLOCATION
    THEN [e |-> [ev EXCEPT !.Location = value], err |-> err, done |-> FALSE]
    ELSE IF key = sDESCRIPTION
    THEN [e |-> [ev EXCEPT !.Description = value], err |-> err, done |-> FALSE]
    ELSE [e |-> ev, err |-> err, done |-> FALSE]

\* A decodeEvent that ends the event at every END line.
EventLineStepAnyEnd(ev, got) ==
    LET out == EventSwitch(ev, NormalizeKey(got.key), UnescapeText(got.value), got.err)
    IN  IF NormalizeKey(got.key) = sEND THEN [out EXCEPT !.done = TRUE] ELSE out

\* The body of the loop of decodeEvent after decodeLine returned got.
EventLineStep(ev, got) ==
    EventSwitch(ev, NormalizeKey(got.key), UnescapeText(got.value), got.err)

(***************************************************************************)
(* Inputs.  An input is a list of lines; a line is written as a record     *)
(*   key, value : the text before and after the first colon,               *)
(*   colon      : whether the line has a colon at all,                     *)
(*   fold       : 0, or the number of bytes after which the line is folded *)
(*                (line terminator, then one space),                       *)
(*   eol        : the line terminator,                                     *)
(* and Bytes gives the bytes the reader sees.                              *)
(***************************************************************************)
EolLF == <<LF>>
EolCRLF == <<CR, LF>>
EolNone == <<>>

Prop(k, v) == [key |-> k, value |-> v, colon |-> TRUE, fold |-> 0, eol |-> EolLF]

Bare(k) == [key |-> k, value |-> <<>>, colon |-> FALSE, fold |-> 0, eol |-> EolLF]

Folded(d, n) == [d EXCEPT !.fold = n]

WithEol(d, t) == [d EXCEPT !.eol = t]

LineText(d) == IF d.colon THEN d.key \o <<":">> \o d.value ELSE d.key

Bytes(d) ==
    LET t == LineText(d)
    IN  IF d.fold > 0
        THEN SubSeq(t, 1, d.fold) \o d.eol \o <<SP>> \o From(t, d.fold) \o d.eol
        ELSE t \o d.eol

RECURSIVE Flatten(_)
Flatten(ls) == IF ls = <<>> THEN <<>> ELSE Bytes(Head(ls)) \o Flatten(Tail(ls))

\* The sequences of at most n elements of S.
RECURSIVE SeqsUpTo(_, _)
SeqsUpTo(S, n) ==
    IF n = 0 THEN {<<>>}
    ELSE LET prev == SeqsUpTo(S, n - 1)
         IN  prev \cup {Append(p, x) : p \in prev, x \in S}

v1 == <<"1">>
v2 == <<"2">>
vHi == <<"H", "i">>
vYo == <<"Y", "o">>
vRoom == <<"R", "o", "o", "m">>
vText == <<"T", "e", "x", "t">>
v20230101 == <<"2", "0", "2", "3", "0", "1", "0", "1">>
v20230102 == <<"2", "0", "2", "3", "0", "1", "0", "2">>
v20230103 == <<"2", "0", "2", "3", "0", "1", "0", "3">>
v20221231 == <<"2", "0", "2", "2", "1", "2", "3", "1">>
v20230505 == <<"2", "0", "2", "3", "0", "5", "0", "5">>
vShortDate == <<"2", "0", "2", "3">>
vBadDigits == <<"2", "0", "2", "3", "A", "B", "0", "1">>
vBadDay == <<"2", "0", "2", "3", "0", "2", "3", "0">>
vEscDate == <<"2", "0", "2", "3", "0", "1", "\\", ";">>
vDateTime == <<"2", "0", "2", "3", "0", "1", "0", "2", "T", "1", "5", "0", "4", "0", "5", "Z">>
vEscNewline == <<"a", "\\", "n", "b">>
vEscPunct == <<"a", "\\", ";", "b", "\\", ",", "c">>
vNbsp == <<"a", "&", "n", "b", "s", "p", "b">>
sVALARM == <<"V", "A", "L", "A", "R", "M">>
sNOCOLON == <<"N", "O", "C", "O", "L", "O", "N", "H", "E", "R", "E">>
sTZID == <<";", "T", "Z", "I", "D", "=", "U">>
sXKEY == <<"X", "-", "K">>

lBeginCal == Prop(sBEGIN, sVCALENDAR)
lEndCal == Prop(sEND, sVCALENDAR)
lBeginEvent == Prop(sBEGIN, sVEVENT)
lEndEvent == Prop(sEND, sVEVENT)
lBeginAlarm == Prop(sBEGIN, sVALARM)
lEndAlarm == Prop(sEND, sVALARM)
lNoColon == Bare(sNOCOLON)
lBlank == Bare(<<>>)
lUnknown == Prop(sXKEY, v1)

\* Event bodies of well-formed calendars.
SimpleBodies ==
    { <<>>,
      <<Prop(sUID, v1), Prop(sDTSTART, v20230102), Prop(sDTEND, v20230103),
        Prop(sSUMMARY, vHi), Prop(sLOCATION, vRoom), Prop(sDESCRIPTION, vText)>>,
      <<WithEol(Prop(sUID, v2), EolCRLF), WithEol(Prop(sDTSTART, v20230101), EolCRLF)>>,
      <<Prop(sDTSTART, v20221231), Prop(sSUMMARY, vYo)>> }

Block(body) == <<lBeginEvent>> \o body \o <<lEndEvent>>

\* What follows the event blocks of a calendar.
CalTails ==
    { <<lEndCal>>,
      <<WithEol(lEndCal, EolNone)>>,
      <<>>,
      <<lNoColon>>,
      <<lBeginEvent, Prop(sUID, v1)>>,
      <<lEndCal, lBeginEvent, lEndEvent, lEndCal>> }

\* First family: BEGIN:VCALENDAR, at most MaxEvents event blocks, a tail.
RECURSIVE BlockSeqs(_)
BlockSeqs(n) ==
    IF n = 0 THEN {<<>>}
    ELSE LET prev == BlockSeqs(n - 1)
         IN  prev \cup {p \o Block(b) : p \in prev, b \in SimpleBodies}

DocsCalendar ==
    {<<lBeginCal>> \o bs \o t : bs \in BlockSeqs(MaxEvents), t \in CalTails}

\* Lines that may stand inside the event of the second family.
PropLines ==
    { Prop(sUID, v1),
      Prop(sDTSTART, v20230102),
      Prop(sDTSTART \o sVALUEDATE, v20230505),
      Prop(sDTSTART \o sTZID, v20230101),
      Prop(sDTSTART, vShortDate),
      Prop(sDTSTART, <<>>),
      Prop(sDTSTART, vBadDigits),
      Prop(sDTSTART, vDateTime),
      Prop(sDTSTART, vEscDate),
      Prop(sDTEND, v20230103),
      Prop(sDTEND \o sVALUEDATE, vShortDate),
      Prop(sDTEND, vBadDay),
      Prop(sSUMMARY, vHi),
      Folded(Prop(sSUMMARY, vHi), 9),
      Folded(WithEol(Prop(sLOCATION, vRoom), EolCRLF), 11),
      Prop(sDESCRIPTION, vEscNewline),
      lEndAlarm,
      lEndCal,
      lNoColon,
      lBlank,
      lUnknown }

\* Second family: one event of at most MaxProps lines, closed or not.
DocsEvent ==
    {<<lBeginCal, lBeginEvent>> \o body \o close :
        body \in SeqsUpTo(PropLines, MaxProps),
        close \in {<<lEndEvent, lEndCal>>, <<lEndEvent>>, <<>>}}

\* Third family: any stream of at most MaxLines of these lines, the last
\* one with or without its line terminator.
TopLines ==
    { lBeginCal, lEndCal, lBeginEvent, lEndEvent, lBeginAlarm,
      lNoColon, lBlank, lUnknown }

CutLastEol(ls) ==
    IF ls = <<>> THEN ls ELSE [ls EXCEPT ![Len(ls)] = WithEol(ls[Len(ls)], EolNone)]

DocsShort ==
    LET S == SeqsUpTo(TopLines, MaxLines)
    IN  S \cup {CutLastEol(ls) : ls \in S}

\* The fourth family: one event with one SUMMARY line, its value a text of
\* backslashes, semicolons, commas and letters in its escaped form; the
\* event is closed or cut short, with or without a line before it.
TextAlphabet == {BS, ";", ",", "a", "n"}

Texts == SeqsUpTo(TextAlphabet, MaxText)

\* The escaped form of one byte of a text, as the writer of a calendar
\* writes it.
EscapeByte(ch) == IF ch \in {BS, ";", ","} THEN <<BS, ch>> ELSE <<ch>>

RECURSIVE Escape(_)
Escape(t) == IF t = <<>> THEN <<>> ELSE EscapeByte(Head(t)) \o Escape(Tail(t))

DocsText ==
    { <<lBeginCal>> \o pre \o <<lBeginEvent, Prop(sSUMMARY, Escape(t))>> \o close :
        pre \in {<<>>, <<lUnknown>>},
        t \in Texts,
        close \in {<<lEndEvent, lEndCal>>, <<lEndEvent>>, <<>>} }

(***************************************************************************)
(* The state of one call of decode(rd, removeCRLF).                        *)
(***************************************************************************)
VARIABLES
    lines,       \* the input as written, line by line
    input,       \* the bytes of rd
    atEnd,       \* what rd returns at the end of its bytes: EOF or ErrIO
    removeCRLF,  \* the mode: TRUE for Decode, FALSE for DecodePreserveCRLF
    rd,          \* r: the number of bytes read from the bufio.Reader
    nread,       \* the number of calls of decodeLine that have returned
    line,        \* what the latest call of decodeLine returned
    pc,          \* "decode": at the top of the loop of decode;
                 \* "decodeEvent": at the top of the loop of decodeEvent;
                 \* "done": decode has returned or panicked
    c,           \* decode's c: isNil, or a Calendar with its Event list
    e,           \* decodeEvent's e
    err,         \* decodeEvent's err
    ret          \* the outcome of decode

vars == <<lines, input, atEnd, removeCRLF, rd, nread, line, pc, c, e, err, ret>>

NilCalendar == [isNil |-> TRUE, Event |-> <<>>]

\* new(Calendar)
NewCalendar == [isNil |-> FALSE, Event |-> <<>>]

NoLine == [key |-> <<>>, value |-> <<>>, err |-> Nil]

Running == [status |-> "running", c |-> NilCalendar, err |-> Nil]

\* return c, err
Return(cal, er) == [status |-> "returned", c |-> cal, err |-> er]

\* a run-time panic (nil pointer dereference)
Panic == [status |-> "panic", c |-> NilCalendar, err |-> Nil]

Init ==
    /\ \/ lines \in DocsCalendar \cup DocsEvent /\ atEnd = EOF
       \/ lines \in DocsShort /\ atEnd \in {EOF, ErrIO}
    /\ input = Flatten(lines)
    /\ removeCRLF \in BOOLEAN
    /\ rd = 0
    /\ nread = 0
    /\ line = NoLine
    /\ pc = "decode"
    /\ c = NilCalendar
    /\ e = NewEvent
    /\ err = Nil
    /\ ret = Running

\* key, value, err := decodeLine(r, removeCRLF), from the present state.
Got == decodeLine(input, rd, atEnd, removeCRLF)

ReadLine(got) ==
    /\ rd' = got.rd
    /\ nread' = nread + 1
    /\ line' = [key |-> got.key, value |-> got.value, err |-> got.err]

Params == <<lines, input, atEnd, removeCRLF>>

\* Mutant of BadBegin: every BEGIN line must be BEGIN:VCALENDAR.
BadBeginAlways(got) == got.key = sBEGIN /\ got.value # sVCALENDAR

\* The BEGIN line is refused: no Calendar yet and the value is not VCALENDAR.
BadBegin(got) == got.key = sBEGIN /\ c.isNil /\ got.value # sVCALENDAR

\* Mutant of DecodeFail: the Calendar built so far is returned with the error.
DecodeFailPartial(got) ==
    /\ pc = "decode"
    /\ got.err # Nil \/ BadBegin(got)
    /\ ReadLine(got)
    /\ ret' = Return(c, IF got.err # Nil THEN got.err ELSE ErrNoVCalendar)
    /\ pc' = "done"
    /\ UNCHANGED <<Params, c, e, err>>

\* A decode that takes an error of decodeLine at the end of the input for
\* the end of the calendar and returns what it has.
DecodeFailAtEnd(got) ==
    /\ pc = "decode"
    /\ got.err # Nil \/ BadBegin(got)
    /\ ReadLine(got)
    /\ ret' = IF got.err # Nil /\ rd = Len(input) /\ ~c.isNil
              THEN Return(c, Nil)
              ELSE Return(NilCalendar, IF got.err # Nil THEN got.err ELSE ErrNoVCalendar)
    /\ pc' = "done"
    /\ UNCHANGED <<Params, c, e, err>>

\* decode: decodeLine fails, or the first BEGIN is not BEGIN:VCALENDAR;
\* return nil, err.
DecodeFail(got) ==
    /\ pc = "decode"
    /\ got.err # Nil \/ BadBegin(got)
    /\ ReadLine(got)
    /\ ret' = Return(NilCalendar, IF got.err # Nil THEN got.err ELSE ErrNoVCalendar)
    /\ pc' = "done"
    /\ UNCHANGED <<Params, c, e, err>>

\* decode: a BEGIN line.  The first one starts the Calendar;
\* BEGIN:VEVENT calls decodeEvent.
DecodeBegin(got) ==
    /\ pc = "decode"
    /\ got.err = Nil /\ got.key = sBEGIN /\ ~BadBegin(got)
    /\ ReadLine(got)
    /\ c' = IF c.isNil THEN NewCalendar ELSE c
    /\ IF got.value = sVEVENT
       THEN pc' = "decodeEvent" /\ e' = NewEvent /\ err' = Nil
       ELSE pc' = "decode" /\ UNCHANGED <<e, err>>
    /\ UNCHANGED <<Params, ret>>

\* decode: END:VCALENDAR breaks the loop; sort c.Event and return c.
DecodeEnd(got) ==
    /\ pc = "decode"
    /\ got.err = Nil /\ got.key = sEND /\ got.value = sVCALENDAR
    /\ ReadLine(got)
    /\ IF c.isNil
       THEN c' = c /\ ret' = Panic
       ELSE /\ c' = [c EXCEPT !.Event = Sort(c.Event)]
            /\ ret' = Return(c', Nil)
    /\ pc' = "done"
    /\ UNCHANGED <<Params, e, err>>

\* decode: any other line is read and dropped.
DecodeSkip(got) ==
    /\ pc = "decode"
    /\ got.err = Nil
    /\ got.key # sBEGIN
    /\ ~(got.key = sEND /\ got.value = sVCALENDAR)
    /\ ReadLine(got)
    /\ pc' = "decode"
    /\ UNCHANGED <<Params, c, e, err, ret>>

\* decodeEvent: err is set at the top of the loop.  io.EOF returns the
\* event, which decode appends; any other error makes decode return nil, err.
\* A decodeEvent that takes every error of decodeLine for the end of the
\* stream and returns the event as far as it is filled.
EventReturnErrTolerant ==
    /\ pc = "decodeEvent"
    /\ err # Nil
    /\ IF err \in {EOF, ErrBadLine}
       THEN /\ c' = [c EXCEPT !.Event = Append(c.Event, e)]
            /\ pc' = "decode"
            /\ ret' = ret
       ELSE /\ c' = c
            /\ pc' = "done"
            /\ ret' = Return(NilCalendar, err)
    /\ UNCHANGED <<Params, rd, nread, line, e, err>>

EventReturnErr ==
    /\ pc = "decodeEvent"
    /\ err # Nil
    /\ IF err = EOF
       THEN /\ c' = [c EXCEPT !.Event = Append(c.Event, e)]
            /\ pc' = "decode"
            /\ ret' = ret
       ELSE /\ c' = c
            /\ pc' = "done"
            /\ ret' = Return(NilCalendar, err)
    /\ UNCHANGED <<Params, rd, nread, line, e, err>>

\* decodeEvent: one line that does not end the event.
EventLine(got) ==
    /\ pc = "decodeEvent"
    /\ err = Nil
    /\ LET out == EventLineStep(e, got)
       IN  /\ ~out.done
           /\ ReadLine(got)
           /\ e' = out.e
           /\ err' = out.err
    /\ pc' = "decodeEvent"
    /\ UNCHANGED <<Params, c, ret>>

\* decodeEvent: END:VEVENT returns the event, and decode appends it.
EventEnd(got) ==
    /\ pc = "decodeEvent"
    /\ err = Nil
    /\ LET out == EventLineStep(e, got)
       IN  /\ out.done
           /\ ReadLine(got)
           /\ e' = out.e
           /\ err' = out.err
           /\ c' = [c EXCEPT !.Event = Append(c.Event, out.e)]
    /\ pc' = "decode"
    /\ UNCHANGED <<Params, ret>>

\* Each step of decode or decodeEvent calls decodeLine at most once.
Next ==
    LET got == Got
    IN  \/ DecodeFail(got)
        \/ DecodeBegin(got)
        \/ DecodeEnd(got)
        \/ DecodeSkip(got)
        \/ EventReturnErr
        \/ EventLine(got)
        \/ EventEnd(got)

Spec == Init /\ [][Next]_vars

\* Decode called on an input of the fourth family.
InitText ==
    /\ lines \in DocsText
    /\ atEnd = EOF
    /\ input = Flatten(lines)
    /\ removeCRLF = TRUE
    /\ rd = 0
    /\ nread = 0
    /\ line = NoLine
    /\ pc = "decode"
    /\ c = NilCalendar
    /\ e = NewEvent
    /\ err = Nil
    /\ ret = Running

TextSpec == InitText /\ [][Next]_vars

TypeOK ==
    /\ pc \in {"decode", "decodeEvent", "done"}
    /\ ret.status \in {"running", "returned", "panic"}
    /\ (pc = "done") = (ret.status # "running")
    /\ rd \in 0..Len(input)

(***************************************************************************)
(* The input as written, for the statements below.                         *)
(***************************************************************************)
\* The line that the latest call of decodeLine read, when there is one.
HasLatest == nread >= 1 /\ nread <= Len(lines)

Latest == lines[nread]

\* The number of bytes of the first n lines.
BytesOf(n) == Len(Flatten(SubSeq(lines, 1, n)))

\* Each call of decodeLine reads one written line, as long as lines remain.
ReaderInSync ==
    rd = BytesOf(IF nread <= Len(lines) THEN nread ELSE Len(lines))

\* An unfolded, newline-terminated KEY:VALUE line.
PlainLine(d) == d.colon /\ d.fold = 0 /\ d.eol \in {EolLF, EolCRLF}

IsLine(d, k, v) == PlainLine(d) /\ d.key = k /\ d.value = v

\* The dates written in the inputs, as calendar dates.
WrittenDates == {v20230101, v20230102, v20230103, v20221231, v20230505}

WrittenDate(v) ==
    CASE v = v20230101 -> 20230101
      [] v = v20230102 -> 20230102
      [] v = v20230103 -> 20230103
      [] v = v20221231 -> 20221231
      [] v = v20230505 -> 20230505

\* Text with nothing for UnescapeText to rewrite.
PlainText(v) == \A i \in 1..Len(v) : v[i] \notin {BS, LF, CR, SP, "&"}

\* A property line of an event block: one of the six keys, a plain value.
IsFieldLine(d) ==
    /\ PlainLine(d)
    /\ \/ d.key \in {sDTSTART, sDTEND} /\ d.value \in WrittenDates
       \/ d.key \in {sUID, sSUMMARY, sLOCATION, sDESCRIPTION} /\ PlainText(d.value)

\* An event with no field written.
NoFields ==
    [UID |-> <<>>, Start |-> ZeroTime, End |-> ZeroTime,
     Summary |-> <<>>, Location |-> <<>>, Description |-> <<>>]

\* The event after the field line d is written into it.
WriteField(ev, d) ==
    CASE d.key = sUID -> [ev EXCEPT !.UID = d.value]
      [] d.key = sDTSTART -> [ev EXCEPT !.Start = WrittenDate(d.value)]
      [] d.key = sDTEND -> [ev EXCEPT !.End = WrittenDate(d.value)]
      [] d.key = sSUMMARY -> [ev EXCEPT !.Summary = d.value]
      [] d.key = sLOCATION -> [ev EXCEPT !.Location = d.value]
      [] d.key = sDESCRIPTION -> [ev EXCEPT !.Description = d.value]

\* Reads ls[i..] as event blocks followed by END:VCALENDAR: ok says that it
\* has this form, events are the events as written, in the order written.
RECURSIVE ScanBlocks(_, _, _, _, _)
ScanBlocks(ls, i, inEvent, cur, acc) ==
    IF i > Len(ls) THEN [ok |-> FALSE, events |-> acc]
    ELSE IF inEvent
    THEN IF IsLine(ls[i], sEND, sVEVENT)
         THEN ScanBlocks(ls, i + 1, FALSE, NoFields, Append(acc, cur))
         ELSE IF IsFieldLine(ls[i])
         THEN ScanBlocks(ls, i + 1, TRUE, WriteField(cur, ls[i]), acc)
         ELSE [ok |-> FALSE, events |-> acc]
    ELSE IF IsLine(ls[i], sBEGIN, sVEVENT)
    THEN ScanBlocks(ls, i + 1, TRUE, NoFields, acc)
    ELSE [ok |-> i = Len(ls) /\ IsLine(ls[i], sEND, sVCALENDAR), events |-> acc]

\* The input is BEGIN:VCALENDAR, event blocks, END:VCALENDAR.
Written ==
    IF lines # <<>> /\ IsLine(lines[1], sBEGIN, sVCALENDAR)
    THEN ScanBlocks(lines, 2, FALSE, NoFields, <<>>)
    ELSE [ok |-> FALSE, events |-> <<>>]

Count(l, x) == Cardinality({i \in 1..Len(l) : l[i] = x})

\* l and m hold the same elements, each as many times.
SameEvents(l, m) ==
    /\ Len(l) = Len(m)
    /\ \A i \in 1..Len(l) : Count(l, l[i]) = Count(m, l[i])

Returned == pc = "done" /\ ret.status = "returned"

ReturnedCalendar == Returned /\ ret.err = Nil /\ ~ret.c.isNil

(***************************************************************************)
(* Statements about decode.                                                *)
(***************************************************************************)
\* C1: in trimming mode, for an input made of BEGIN:VCALENDAR, n event
\* blocks of field lines (unfolded, newline-terminated) and END:VCALENDAR,
\* decode returns no error and a Calendar of exactly n events, which are
\* the events as written, each with the fields of its own block and every
\* other field empty or unset.
C1_WellFormedDecodes ==
    (pc = "done" /\ removeCRLF /\ Written.ok) =>
        /\ ReturnedCalendar
        /\ SameEvents(ret.c.Event, Written.events)

C1_Witness ==
    /\ removeCRLF /\ Written.ok /\ ReturnedCalendar
    /\ Len(ret.c.Event) = 3
    /\ ret.c.Event[1] = NoFields
    /\ ret.c.Event[3].Description = vText
    /\ ret.c.Event[2].Summary = vYo /\ ret.c.Event[2].UID = <<>>

\* C2: the events of every returned Calendar are in ascending order of
\* Start, the events with an unset Start before all the others.
C2_SortedByStart ==
    ReturnedCalendar =>
        \A i, j \in 1..Len(ret.c.Event) :
            i < j =>
                /\ ~Before(ret.c.Event[j].Start, ret.c.Event[i].Start)
                /\ IsZero(ret.c.Event[j].Start) => IsZero(ret.c.Event[i].Start)

C2_Witness ==
    /\ ReturnedCalendar /\ Written.ok
    /\ Len(ret.c.Event) = 3
    /\ Written.events[1].Start = 20230102
    /\ Written.events[2].Start = 20221231
    /\ IsZero(Written.events[3].Start)
    /\ IsZero(ret.c.Event[1].Start)
    /\ ret.c.Event[2].Start = 20221231
    /\ ret.c.Event[3].Start = 20230102

\* The text field of ev that the key k names.
TextField(ev, k) ==
    CASE k = sUID -> ev.UID
      [] k = sSUMMARY -> ev.Summary
      [] k = sLOCATION -> ev.Location
      [] k = sDESCRIPTION -> ev.Description

\* C3: in trimming mode decodeLine returns for a line, folded or not, the
\* key and value it returns for the same line written on one raw line, and
\* a text field decoded from a folded line is the value as written.
C3_FoldingTransparent ==
    (removeCRLF /\ HasLatest /\ Latest.colon /\ line.err # ErrIO) =>
        LET one == decodeLine(Bytes(Folded(Latest, 0)), 0, EOF, TRUE)
        IN  /\ line.err = Nil
            /\ line.key = one.key
            /\ line.value = one.value
            /\ (/\ pc = "decodeEvent"
                /\ Latest.key \in {sUID, sSUMMARY, sLOCATION, sDESCRIPTION}
                /\ PlainText(Latest.value))
               => TextField(e, Latest.key) = Latest.value

\* C4: decode ends by returning a Calendar or an error, and never panics.
C4_ReturnsCalendarOrError ==
    pc = "done" =>
        /\ ret.status = "returned"
        /\ ret.err # Nil \/ ~ret.c.isNil

\* C5: whenever decode returns an error, the Calendar it returns is nil.
C5_AllOrNothing == (Returned /\ ret.err # Nil) => ret.c.isNil

C5_Witness ==
    /\ Returned /\ ret.err # Nil /\ ret.c.isNil
    /\ ~c.isNil /\ Len(c.Event) >= 2

\* C6: a line without a colon, read at top level or inside an event, makes
\* decode fail with the malformed-line error and return no Calendar.
C6_NoColonFails ==
    (HasLatest /\ ~Latest.colon /\ line.err # ErrIO) =>
        /\ line.err = ErrBadLine
        /\ \/ pc = "done" /\ ret = Return(NilCalendar, ErrBadLine)
           \/ pc = "decodeEvent" /\ err = ErrBadLine

C6_Witness ==
    /\ pc = "done" /\ ret = Return(NilCalendar, ErrBadLine)
    /\ nread = 4 /\ Len(lines) >= 4 /\ lines[4] = lNoColon
    /\ IsLine(lines[2], sBEGIN, sVEVENT)
    /\ e.UID = v1

\* The first BEGIN line of the input; 0 when there is none.
FirstBegin ==
    LET S == {i \in 1..Len(lines) : lines[i].colon /\ lines[i].key = sBEGIN}
    IN  IF S = {} THEN 0 ELSE CHOOSE i \in S : \A j \in S : i <= j

\* Line i has been read (the reader did not fail on it).
WasRead(i) == nread > i \/ (nread = i /\ line.err # ErrIO)

\* C7: when the first BEGIN line is not BEGIN:VCALENDAR, decode fails on it
\* with the structure error, before any event is decoded; once a Calendar
\* is started no BEGIN line raises this error.
C7_FirstBeginMustBeVCalendar ==
    /\ (FirstBegin # 0 /\ lines[FirstBegin].value # sVCALENDAR /\ WasRead(FirstBegin))
       => /\ nread = FirstBegin
          /\ pc = "done" /\ ret = Return(NilCalendar, ErrNoVCalendar)
          /\ c = NilCalendar /\ e = NoFields
    /\ (Returned /\ ret.err = ErrNoVCalendar) => c.isNil

C7_Witness ==
    /\ Len(lines) = 3
    /\ FirstBegin = 2 /\ lines[2] = lBeginEvent /\ lines[1] = lUnknown
    /\ pc = "done" /\ ret = Return(NilCalendar, ErrNoVCalendar)

\* The value that decodeEvent hands to decodeDate for the latest line.
DateValue == UnescapeText(line.value)

\* C8: inside an event a DTSTART or DTEND with a value of fewer than 8
\* bytes leaves Start or End unset and raises no error: the event goes on
\* with the next line.
C8_ShortDateLeavesUnset ==
    (pc = "decodeEvent" /\ nread >= 1 /\ line.err = Nil /\ Len(DateValue) < 8) =>
        /\ HasPrefix(line.key, sDTSTART) => (e.Start = ZeroTime /\ err = Nil)
        /\ HasPrefix(line.key, sDTEND) => (e.End = ZeroTime /\ err = Nil)

C8_Witness ==
    /\ pc = "decodeEvent" /\ err = Nil
    /\ line.key = sDTSTART /\ line.value = vShortDate
    /\ e.Start = ZeroTime
    /\ nread = 4 /\ IsLine(lines[3], sDTSTART, v20230102)

\* Values whose first 8 bytes are no date.
NotDates == {vBadDigits, vBadDay}

BadDateRead ==
    /\ pc = "decodeEvent" /\ line.err = Nil
    /\ HasPrefix(line.key, sDTSTART) \/ HasPrefix(line.key, sDTEND)
    /\ Len(DateValue) >= 8 /\ SubSeq(DateValue, 1, 8) \in NotDates

\* C9: after a DTSTART or DTEND whose value has 8 bytes or more, the first
\* 8 of them no date, no further line is read: the next step returns the
\* parse error and no Calendar, and no event is appended.
C9_BadDateAborts ==
    [][BadDateRead =>
        /\ nread' = nread
        /\ pc' = "done"
        /\ ret' = Return(NilCalendar, ErrParse)
        /\ c' = c]_vars

C9_Witness ==
    /\ pc = "done" /\ ret = Return(NilCalendar, ErrParse)
    /\ line.key = sDTEND /\ line.value = vBadDay
    /\ nread = 4 /\ Len(lines) = 6
    /\ e.UID = v1 /\ c.Event = <<>>

\* C10: inside an event a key that begins with DTSTART sets Start as the
\* bare key DTSTART does with the same value, a key that begins with DTEND
\* sets End as the bare key DTEND does, and no other key changes Start or
\* End.
C10_PrefixedKeysAreBare ==
    [][(pc = "decodeEvent" /\ nread' = nread + 1) =>
        LET k == line'.key
            d == decodeDate(UnescapeText(line'.value))
        IN  /\ HasPrefix(k, sDTSTART) =>
                (e' = [e EXCEPT !.Start = d.t] /\ err' = d.err)
            /\ HasPrefix(k, sDTEND) =>
                (e' = [e EXCEPT !.End = d.t] /\ err' = d.err)
            /\ (~HasPrefix(k, sDTSTART) /\ ~HasPrefix(k, sDTEND)) =>
                (e'.Start = e.Start /\ e'.End = e.End)]_vars

C10_Witness ==
    /\ pc = "decodeEvent" /\ err = Nil
    /\ line.key = sDTSTART \o sTZID /\ line.value = v20230101
    /\ e.Start = 20230101
    /\ nread = 4 /\ IsLine(lines[3], sDTSTART \o sVALUEDATE, v20230505)

(***************************************************************************)
(* The text transform, on the inputs of TextSpec.                          *)
(***************************************************************************)
\* C11: when the SUMMARY line of an event holds the escaped form of a text
\* of backslashes, semicolons, commas and letters, the Summary stored for
\* it is that text.
C11_UnescapeRoundTrip ==
    (pc = "decodeEvent" /\ line.err = Nil /\ line.key = sSUMMARY) =>
        \A t \in Texts : line.value = Escape(t) => e.Summary = t

(***************************************************************************)
(* The two modes, blank lines and the end of the stream.                   *)
(***************************************************************************)
\* C12: DecodePreserveCRLF on a well-formed calendar of LF- or
\* CRLF-terminated lines returns a Calendar with as many events as are
\* written, the number Decode returns for it.
C12_PreserveModeDecodes ==
    (pc = "done" /\ ~removeCRLF /\ atEnd = EOF /\ Written.ok) =>
        (ReturnedCalendar /\ Len(ret.c.Event) = Len(Written.events))

\* A raw line that consists of its line terminator only.
IsBlank(d) == ~d.colon /\ d.key = <<>> /\ d.fold = 0 /\ d.eol \in {EolLF, EolCRLF}

WithoutBlanks(ls) == SelectSeq(ls, LAMBDA d : ~IsBlank(d))

\* The events as written, when the input with its blank lines left out is
\* BEGIN:VCALENDAR, event blocks, END:VCALENDAR.
WrittenWithoutBlanks ==
    LET ls == WithoutBlanks(lines)
    IN  IF ls # <<>> /\ IsLine(ls[1], sBEGIN, sVCALENDAR)
        THEN ScanBlocks(ls, 2, FALSE, NoFields, <<>>)
        ELSE [ok |-> FALSE, events |-> <<>>]

\* Every blank line stands between two other lines.
BlanksInside ==
    /\ lines # <<>>
    /\ ~IsBlank(lines[1])
    /\ ~IsBlank(lines[Len(lines)])

\* C13: Decode on a well-formed calendar with blank lines put between its
\* lines returns without error the Calendar of the input without the blank
\* lines: the events as written.
C13_BlankLinesSkipped ==
    (pc = "done" /\ removeCRLF /\ atEnd = EOF /\ BlanksInside
        /\ WrittenWithoutBlanks.ok) =>
        (ReturnedCalendar /\ SameEvents(ret.c.Event, WrittenWithoutBlanks.events))

\* The stream has ended inside an event: decodeEvent has called decodeLine
\* with no byte of the input left.
EndInsideEvent == pc = "decodeEvent" /\ nread > Len(lines) /\ atEnd = EOF

\* C14: when the stream ends inside an event, decodeLine signals the end of
\* the stream and decodeEvent returns the event as far as it is filled,
\* with no error: the event is appended and decode goes on.
C14_EndInsideEventTolerated ==
    [][EndInsideEvent =>
        /\ line.err = EOF
        /\ pc' = "decode"
        /\ c'.Event = Append(c.Event, e)]_vars

\* C15: an event is appended to the Calendar only by the step of
\* decodeEvent that reads a line END:VEVENT, and it is the event under
\* construction at that line; no other step makes the list longer.
C15_AppendedOnlyWhenClosed ==
    [][Len(c'.Event) > Len(c.Event) =>
        /\ pc = "decodeEvent"
        /\ nread' = nread + 1
        /\ line'.err = Nil
        /\ line'.key = sEND
        /\ line'.value = sVEVENT
        /\ c'.Event = Append(c.Event, e)]_vars

C15_Witness ==
    /\ Len(lines) >= 4
    /\ IsLine(lines[3], sUID, v1)
    /\ IsLine(lines[4], sEND, sVEVENT)
    /\ nread = 4 /\ pc = "decode"
    /\ line.key = sEND /\ line.value = sVEVENT
    /\ c.Event = <<[NoFields EXCEPT !.UID = v1]>>

(***************************************************************************)
(* The end of the calendar.                                                *)
(***************************************************************************)
\* C16: decode returns a Calendar only in the step in which it reads, at
\* top level, a line END:VCALENDAR of the input, with the events appended
\* up to that line; when it has called decodeLine with no line left it
\* returns an error and no Calendar; and after decode has returned no line
\* is read and nothing changes.
C16_CalendarOnlyAtEndVCalendar ==
    [][/\ pc # "done"
       /\ (pc' = "done" /\ ret'.status = "returned" /\ ret'.err = Nil) =>
            /\ pc = "decode"
            /\ nread' = nread + 1 /\ nread' <= Len(lines)
            /\ line'.key = sEND /\ line'.value = sVCALENDAR
            /\ ~ret'.c.isNil
            /\ SameEvents(ret'.c.Event, c.Event)
       /\ (pc' = "done" /\ nread' > Len(lines)) =>
            /\ ret'.status = "returned"
            /\ ret'.err # Nil
            /\ ret'.c.isNil]_vars

C16_Witness ==
    /\ ReturnedCalendar
    /\ nread + 2 <= Len(lines)
    /\ IsLine(lines[nread + 1], sBEGIN, sVEVENT)
    /\ IsLine(lines[nread + 2], sEND, sVEVENT)
    /\ line.key = sEND /\ line.value = sVCALENDAR
    /\ Len(ret.c.Event) = 1

(***************************************************************************)
(* The order of the sort.                                                  *)
(***************************************************************************)
\* C17: over the list of events of the Calendar, Less is false in both
\* directions for two events that both have an unset Start, and Less(i, j)
\* and Less(j, i) never hold together (so Less(i, i) never holds).
C17_LessIsStrict ==
    \A i, j \in 1..Len(c.Event) :
        /\ (IsZero(c.Event[i].Start) /\ IsZero(c.Event[j].Start)) =>
             (~Less(c.Event, i, j) /\ ~Less(c.Event, j, i))
        /\ ~(Less(c.Event, i, j) /\ Less(c.Event, j, i))

(***************************************************************************)
(* Inside an event: END lines and text.                                    *)
(***************************************************************************)
\* C18: when decodeEvent reads a line with key END and a value other than
\* VEVENT, the event under construction and the Calendar stay as they are,
\* no error is raised, nothing is returned, and decodeEvent goes on to the
\* next line.
C18_OtherEndIgnored ==
    [][(pc = "decodeEvent" /\ nread' = nread + 1 /\ line'.err = Nil
            /\ line'.key = sEND /\ line'.value # sVEVENT) =>
        /\ e' = e
        /\ c' = c
        /\ err' = Nil
        /\ ret' = ret
        /\ pc' = "decodeEvent"]_vars

C18_Witness ==
    /\ Len(lines) >= 4
    /\ IsLine(lines[3], sUID, v1)
    /\ IsLine(lines[4], sEND, sVCALENDAR)
    /\ nread = 4 /\ pc = "decodeEvent"
    /\ line.key = sEND /\ line.value = sVCALENDAR
    /\ e.UID = v1 /\ err = Nil /\ c.Event = <<>>

NoNewline(s) == \A i \in 1..Len(s) : s[i] # LF

TextFields(ev) == {ev.UID, ev.Summary, ev.Location, ev.Description}

\* The event under construction, the events of the Calendar and the events
\* returned.
EventsHeld ==
    {e} \cup {c.Event[i] : i \in 1..Len(c.Event)}
        \cup {ret.c.Event[i] : i \in 1..Len(ret.c.Event)}

\* C19: UnescapeText of the value of every line read holds no newline, and
\* no UID, Summary, Location or Description of an event, under construction
\* or returned, holds a newline.
C19_TextIsSingleLine ==
    /\ NoNewline(UnescapeText(line.value))
    /\ \A ev \in EventsHeld : \A s \in TextFields(ev) : NoNewline(s)

C19_Witness ==
    /\ ReturnedCalendar
    /\ Len(lines) = 6
    /\ lines[3] = Folded(Prop(sSUMMARY, vHi), 9)
    /\ IsLine(lines[4], sDESCRIPTION, vEscNewline)
    /\ Len(ret.c.Event) = 1
    /\ ret.c.Event[1].Summary = <<"H", SP, "i">>
    /\ ret.c.Event[1].Description = <<"a", SP, "b">>

(***************************************************************************)
(* Termination.                                                            *)
(***************************************************************************)
\* What is left to do: two for every byte not yet read, and the steps that
\* remain once the bytes are read (one when decodeEvent holds an error).
Variant ==
    IF pc = "done" THEN 0
    ELSE 2 * (Len(input) - rd)
            + (IF pc = "decodeEvent" /\ err # Nil THEN 1 ELSE 2)

\* C20: every call of decodeLine consumes at least one byte or returns an
\* error, and every step of decode and decodeEvent makes what is left to do
\* smaller, a number that is never negative: no loop iterates forever.
C20_Terminates ==
    /\ [](Variant >= 0)
    /\ [][/\ nread' = nread + 1 => (rd' > rd \/ line'.err # Nil)
          /\ Variant' < Variant]_vars

\* decode has returned after it read every byte of an input of three
\* lines, the last one inside an event.
C20_Witness ==
    /\ pc = "done"
    /\ Len(lines) = 3
    /\ IsLine(lines[3], sUID, v1)
    /\ nread = 4 /\ rd = Len(input)
    /\ line.err = ErrBadLine
    /\ ret = Return(NilCalendar, ErrBadLine)

====
